---- MODULE Spec2Model ----
(***************************************************************************)
(* Capacity accounting and assignment validation of the engineering        *)
(* resource management backend: the assignment controller, the project     *)
(* controller, the engineer controller and the capacity service, over the  *)
(* User / Project / Assignment collections.                                *)
(*                                                                         *)
(* Dates are instants on a discrete time line.  One day is TicksPerDay     *)
(* consecutive ticks; tick d * TicksPerDay is midnight of day d and the    *)
(* last tick of a day is the instant date-fns endOfDay returns.            *)
(*                                                                         *)
(* The document store is modelled by its interface: find returns the       *)
(* matching stored documents, save inserts a document under a fresh id,    *)
(* findByIdAndUpdate sets the given fields, findByIdAndDelete removes.     *)
(***************************************************************************)
EXTENDS Integers, FiniteSets, Sequences, TLC

\* ---------------------------------------------------------------- bounds
MaxTick == 3
MaxAssign == 2
TicksPerDay == 2

\* ------------------------------------------------------ program constants
DefaultMaxCapacity == 100
MinPercentage == 1
MaxPercentage == 100
MaxTeamSize == 50

\* -------------------------------------------------------------- universe
Ticks == 0..MaxTick
\* the ids of stored allocations; the last one is given out only where
\* one allocation more than MaxAssign may be stored
AssignmentIds == 1..(MaxAssign + 1)
Engineers == {"e1", "e2"}
Managers == {"m1", "m2"}
ProjectIds == {"p1", "p2"}
Clients == {"c1", "c2"}

\* an id no stored document has
UnknownId == "unknown"

\* absent (undefined) request fields
NoId == "none"
NoDate == -1
BadDate == -2
NoPct == -1
NoNum == -1
NoStatus == "none"
NoAssignment == 0

\* the far-future date new Date('2030-12-31'), later than every date in use
Sentinel == MaxTick + TicksPerDay

VARIABLES users, projects, assignments, response, now, inflight

vars == <<users, projects, assignments, response, now, inflight>>

\* ------------------------------------------------------------ primitives
Max(a, b) == IF a >= b THEN a ELSE b

RECURSIVE SumPct(_, _)
SumPct(store, ids) ==
  IF ids = {} THEN 0
  ELSE LET id == CHOOSE x \in ids : TRUE
       IN store[id].allocationPercentage + SumPct(store, ids \ {id})

startOfDay(t) == (t \div TicksPerDay) * TicksPerDay

endOfDay(t) == startOfDay(t) + (TicksPerDay - 1)

\* the lookup without the role test
UserFound(id) == id \in DOMAIN users

\* User.findById(id) followed by the role test
EngineerFound(id) == id \in DOMAIN users /\ users[id].role = "engineer"

\* engineer.maxCapacity || 100
EffectiveMaxCapacity(engineerId) ==
  IF users[engineerId].maxCapacity = 0 THEN DefaultMaxCapacity
  ELSE users[engineerId].maxCapacity

\* the query with endDate > rangeStart in place of endDate >= rangeStart
QueryMatchesStrictEnd(store, id, engineerId, rangeStart, rangeEnd, excludeAssignmentId) ==
  /\ store[id].engineerId = engineerId
  /\ store[id].startDate <= rangeEnd
  /\ store[id].endDate > rangeStart
  /\ (excludeAssignmentId # NoAssignment => id # excludeAssignmentId)

\* the Mongo query { engineerId, startDate <= rangeEnd, endDate >= rangeStart, _id != exclude }
QueryMatches(store, id, engineerId, rangeStart, rangeEnd, excludeAssignmentId) ==
  /\ store[id].engineerId = engineerId
  /\ store[id].startDate <= rangeEnd
  /\ store[id].endDate >= rangeStart
  /\ (excludeAssignmentId # NoAssignment => id # excludeAssignmentId)

\* the difference without Math.max(0, .)
NoFloor(maxCapacity, totalAllocated) == maxCapacity - totalAllocated

FloorAtZero(maxCapacity, totalAllocated) == Max(0, maxCapacity - totalAllocated)

\* the query made without the excluded id
AvailableCapacityNoExclude(store, engineerId, startDate, endDate, excludeAssignmentId) ==
  LET maxCapacity == EffectiveMaxCapacity(engineerId)
      rangeStart == IF startDate # NoDate THEN startOfDay(startDate) ELSE startOfDay(now)
      rangeEnd == IF endDate # NoDate THEN endOfDay(endDate) ELSE Sentinel
      overlappingAssignments ==
        {id \in DOMAIN store :
           QueryMatches(store, id, engineerId, rangeStart, rangeEnd, NoAssignment)}
      totalAllocated == SumPct(store, overlappingAssignments)
  IN FloorAtZero(maxCapacity, totalAllocated)

\* getAvailableCapacity evaluated against a given content of the Assignment
\* collection (the store read by Assignment.find)
AvailableCapacityIn(store, engineerId, startDate, endDate, excludeAssignmentId) ==
  LET maxCapacity == EffectiveMaxCapacity(engineerId)
      rangeStart == IF startDate # NoDate THEN startOfDay(startDate) ELSE startOfDay(now)
      rangeEnd == IF endDate # NoDate THEN endOfDay(endDate) ELSE Sentinel
      overlappingAssignments ==
        {id \in DOMAIN store :
           QueryMatches(store, id, engineerId, rangeStart, rangeEnd, excludeAssignmentId)}
      totalAllocated == SumPct(store, overlappingAssignments)
  IN FloorAtZero(maxCapacity, totalAllocated)

getAvailableCapacity(engineerId, startDate, endDate, excludeAssignmentId) ==
  AvailableCapacityIn(assignments, engineerId, startDate, endDate, excludeAssignmentId)

\* --------------------------------------------------------- getCapacityInfo
\* a quotient of two integers, kept exact
Ratio(num, den) == [num |-> num, den |-> den]

\* (allocatedCapacity / maxCapacity) * 100
Utilization(allocatedCapacity, maxCapacity) == Ratio(allocatedCapacity * 100, maxCapacity)

getCapacityInfo(engineerId) ==
  LET maxCapacity == EffectiveMaxCapacity(engineerId)
      availableCapacity == getAvailableCapacity(engineerId, NoDate, NoDate, NoAssignment)
      allocatedCapacity == maxCapacity - availableCapacity
  IN [engineerId |-> engineerId,
      maxCapacity |-> maxCapacity,
      allocatedCapacity |-> allocatedCapacity,
      availableCapacity |-> availableCapacity,
      utilizationPercent |-> Utilization(allocatedCapacity, maxCapacity)]

\* -------------------------------------------------- getAvailabilityWindows
\* the ids Assignment.find({ engineerId, endDate >= today }) matches
FutureAssignmentIds(engineerId) ==
  {id \in DOMAIN assignments :
     /\ assignments[id].engineerId = engineerId
     /\ assignments[id].endDate >= startOfDay(now)}

\* .sort({ startDate: 1 }): every order of the matched documents that is
\* ascending in startDate; documents with equal startDate come in any order
SortedByStartDate(ids) ==
  {order \in [1..Cardinality(ids) -> ids] :
     /\ \A i, j \in 1..Cardinality(ids) : i # j => order[i] # order[j]
     /\ \A i, j \in 1..Cardinality(ids) :
          i < j => assignments[order[i]].startDate <= assignments[order[j]].startDate}

Window(startDate, endDate, availableCapacity) ==
  [startDate |-> startDate, endDate |-> endDate, availableCapacity |-> availableCapacity]

\* a window is pushed for every consecutive pair
GapAlways(currentAssignment, nextAssignment) == TRUE

\* isAfter(nextAssignment.startDate, currentAssignment.endDate)
GapBetween(currentAssignment, nextAssignment) ==
  nextAssignment.startDate > currentAssignment.endDate

\* the loop over consecutive pairs, from pair i on
RECURSIVE GapWindows(_, _, _)
GapWindows(futureAssignments, i, maxCapacity) ==
  IF i >= Len(futureAssignments) THEN <<>>
  ELSE LET currentAssignment == assignments[futureAssignments[i]]
           nextAssignment == assignments[futureAssignments[i + 1]]
           rest == GapWindows(futureAssignments, i + 1, maxCapacity)
       IN IF GapBetween(currentAssignment, nextAssignment)
          THEN <<Window(currentAssignment.endDate, nextAssignment.startDate, maxCapacity)>>
                 \o rest
          ELSE rest

HasCapacity(window) == window.availableCapacity > 0

\* getAvailabilityWindows, given the sorted result of its query
getAvailabilityWindows(engineerId, futureAssignments) ==
  LET maxCapacity == EffectiveMaxCapacity(engineerId)
      today == startOfDay(now)
      windows ==
        IF Len(futureAssignments) = 0
        THEN <<Window(today, Sentinel, maxCapacity)>>
        ELSE LET firstAssignment == assignments[futureAssignments[1]]
                 lastAssignment == assignments[futureAssignments[Len(futureAssignments)]]
             IN (IF firstAssignment.startDate > today
                 THEN <<Window(today, firstAssignment.startDate, maxCapacity)>>
                 ELSE <<>>)
                \o GapWindows(futureAssignments, 1, maxCapacity)
                \o <<Window(lastAssignment.endDate, Sentinel, maxCapacity)>>
  IN SelectSeq(windows, HasCapacity)

\* ------------------------------------- the service calls and their failure
\* a call of an async service function either returns a value or throws
Thrown(message) == [thrown |-> TRUE, message |-> message]

Returned(value) == [thrown |-> FALSE, value |-> value]

getAvailableCapacityCall(engineerId, startDate, endDate, excludeAssignmentId) ==
  IF ~EngineerFound(engineerId) THEN Thrown("Engineer not found")
  ELSE Returned(getAvailableCapacity(engineerId, startDate, endDate, excludeAssignmentId))

getCapacityInfoCall(engineerId) ==
  IF ~EngineerFound(engineerId) THEN Thrown("Engineer not found")
  ELSE Returned(getCapacityInfo(engineerId))

getAvailabilityWindowsCall(engineerId, futureAssignments) ==
  IF ~EngineerFound(engineerId) THEN Thrown("Engineer not found")
  ELSE Returned(getAvailabilityWindows(engineerId, futureAssignments))

\* --------------------------------------------------- findMatchingEngineers
\* a skill name is its letters with the casing it is written in
Skill(letters, casing) == <<letters, casing>>

toLowerCase(skill) == Skill(skill[1], "lower")

\* the comparison made on the names as written
HasSkillAsWritten(engineerSkills, skill) ==
  \E engineerSkill \in engineerSkills : engineerSkill = skill

\* engineerSkills.some(engineerSkill => engineerSkill.toLowerCase() === skill.toLowerCase())
HasSkill(engineerSkills, skill) ==
  \E engineerSkill \in engineerSkills : toLowerCase(engineerSkill) = toLowerCase(skill)

\* the score of an empty requirement computed like any other
MatchScoreOfCount(matchingSkills, requiredSkills) ==
  Ratio(Len(matchingSkills) * 100, Len(requiredSkills))

MatchScore(matchingSkills, requiredSkills) ==
  IF Len(requiredSkills) > 0
  THEN Ratio(Len(matchingSkills) * 100, Len(requiredSkills))
  ELSE Ratio(100, 1)

\* the test with > in place of >=
ExceedsMinCapacity(availableCapacity, minCapacity) == availableCapacity > minCapacity

MeetsMinCapacity(availableCapacity, minCapacity) == availableCapacity >= minCapacity

\* the entry pushed for one engineer
MatchOf(engineer, requiredSkills) ==
  LET engineerSkills == users[engineer].skills
      matchingSkills ==
        SelectSeq(requiredSkills, LAMBDA skill : HasSkill(engineerSkills, skill))
      missingSkills ==
        SelectSeq(requiredSkills, LAMBDA skill : ~HasSkill(engineerSkills, skill))
  IN [engineer |-> engineer,
      matchingSkills |-> matchingSkills,
      missingSkills |-> missingSkills,
      availableCapacity |-> getAvailableCapacity(engineer, NoDate, NoDate, NoAssignment),
      matchScore |-> MatchScore(matchingSkills, requiredSkills)]

\* the loop over the engineers found, from the i-th on
RECURSIVE CollectMatches(_, _, _, _)
CollectMatches(engineers, i, requiredSkills, minCapacity) ==
  IF i > Len(engineers) THEN <<>>
  ELSE LET match == MatchOf(engineers[i], requiredSkills)
           rest == CollectMatches(engineers, i + 1, requiredSkills, minCapacity)
       IN IF MeetsMinCapacity(match.availableCapacity, minCapacity)
          THEN <<match>> \o rest
          ELSE rest

\* x - y as the comparator computes it on two quotients: its sign
RatioCompare(x, y) ==
  IF x.num * y.den > y.num * x.den THEN 1
  ELSE IF x.num * y.den < y.num * x.den THEN -1
  ELSE 0

\* the comparator of the sort is negative: a goes before b
SortsBefore(a, b) ==
  IF RatioCompare(b.matchScore, a.matchScore) # 0
  THEN RatioCompare(b.matchScore, a.matchScore) < 0
  ELSE b.availableCapacity - a.availableCapacity < 0

\* Array.prototype.sort is stable: x goes before the first entry it sorts
\* before, and after every entry it ties with
InsertMatch(sorted, x) ==
  IF \E i \in 1..Len(sorted) : SortsBefore(x, sorted[i])
  THEN LET at == CHOOSE i \in 1..Len(sorted) :
                   /\ SortsBefore(x, sorted[i])
                   /\ \A j \in 1..(i - 1) : ~SortsBefore(x, sorted[j])
       IN SubSeq(sorted, 1, at - 1) \o <<x>> \o SubSeq(sorted, at, Len(sorted))
  ELSE Append(sorted, x)

RECURSIVE SortMatches(_)
SortMatches(matches) ==
  IF Len(matches) = 0 THEN <<>>
  ELSE InsertMatch(SortMatches(SubSeq(matches, 1, Len(matches) - 1)),
                   matches[Len(matches)])

\* the results User.find({ role: 'engineer' }) can give: the engineers, in
\* any order
FindEngineers ==
  LET ids == {u \in DOMAIN users : users[u].role = "engineer"}
  IN {order \in [1..Cardinality(ids) -> ids] :
        \A i, j \in 1..Cardinality(ids) : i # j => order[i] # order[j]}

\* findMatchingEngineers, given the result of its query
findMatchingEngineers(requiredSkills, minCapacity, engineers) ==
  SortMatches(CollectMatches(engineers, 1, requiredSkills, minCapacity))

\* ------------------------------------------------------------- responses
Response(op, status, reason, available, requested, count, who) ==
  [op |-> op, status |-> status, reason |-> reason, available |-> available,
   requested |-> requested, count |-> count, who |-> who]

Plain(op, status, reason) == Response(op, status, reason, -1, -1, -1, NoId)

\* ------------------------------------------------------- createAssignment
MissingFields(req) ==
  \/ req.engineerId = NoId
  \/ req.projectId = NoId
  \/ req.allocationPercentage = NoPct
  \/ req.allocationPercentage = 0
  \/ req.startDate = NoDate
  \/ req.endDate = NoDate

PercentageInRange(p) == ~(p < MinPercentage \/ p > MaxPercentage)

\* a status list that lets completed projects through
IsAssignableOrCompleted(status) == status \in {"planning", "active", "completed"}

IsAssignable(status) == status \in {"planning", "active"}

WithinProject(start, end, project) ==
  ~(start < project.startDate \/ end > project.endDate)

\* the comparison skipped
CapacityNotCompared(availableCapacity, allocationPercentage) == TRUE

\* the comparison with <= in place of <
CapacityStrictlyLarger(availableCapacity, allocationPercentage) ==
  ~(availableCapacity <= allocationPercentage)

CapacitySufficient(availableCapacity, allocationPercentage) ==
  ~(availableCapacity < allocationPercentage)

\* checks 1-4 of createAssignment, in code order: the body's fields, the
\* dates, the percentage, then User.findById; "ok" when all of them pass
CreateValidate(req) ==
  IF MissingFields(req) THEN "MissingFields"
  ELSE IF req.startDate = BadDate \/ req.endDate = BadDate THEN "InvalidDateFormat"
  ELSE IF req.endDate <= req.startDate THEN "EndNotAfterStart"
  ELSE IF ~PercentageInRange(req.allocationPercentage) THEN "InvalidPercentage"
  ELSE IF ~EngineerFound(req.engineerId) THEN "EngineerNotFound"
  ELSE "ok"

\* checks 5-6 of createAssignment: Project.findById, status, containment
CreateProjectCheck(req) ==
  IF req.projectId \notin DOMAIN projects THEN "ProjectNotFound"
  ELSE IF ~IsAssignable(projects[req.projectId].status) THEN "ProjectNotAssignable"
  ELSE IF ~WithinProject(req.startDate, req.endDate, projects[req.projectId])
       THEN "OutOfProjectBounds"
  ELSE "ok"

\* every check of createAssignment that comes before the capacity check
CreatePrecheck(req) ==
  IF CreateValidate(req) # "ok" THEN CreateValidate(req) ELSE CreateProjectCheck(req)

NewAssignment(req) ==
  [engineerId |-> req.engineerId, projectId |-> req.projectId,
   allocationPercentage |-> req.allocationPercentage,
   startDate |-> req.startDate, endDate |-> req.endDate]

\* the id the store gives to the next inserted document
FreshId(store) == CHOOSE id \in AssignmentIds \ DOMAIN store :
                    \A other \in AssignmentIds \ DOMAIN store : id <= other

Insert(store, id, doc) ==
  [x \in DOMAIN store \cup {id} |-> IF x = id THEN doc ELSE store[x]]

\* the response of createAssignment to req in the current state
CreateResponse(req) ==
  LET pre == CreatePrecheck(req)
  IN IF pre # "ok" THEN Plain("createAssignment", 400, pre)
     ELSE LET availableCapacity ==
                getAvailableCapacity(req.engineerId, req.startDate, req.endDate, NoAssignment)
          IN IF ~CapacitySufficient(availableCapacity, req.allocationPercentage)
             THEN Response("createAssignment", 400, "InsufficientCapacity",
                           availableCapacity, req.allocationPercentage, -1, NoId)
             ELSE Plain("createAssignment", 201, "AssignmentCreated")

\* the Assignment collection after createAssignment has answered req
CreateStore(req) ==
  IF CreateResponse(req).status = 201
  THEN Insert(assignments, FreshId(assignments), NewAssignment(req))
  ELSE assignments

\* createAssignment while fewer than limit allocations are stored
createAssignmentWithin(req, limit) ==
  /\ (CreateResponse(req).status = 201 => Cardinality(DOMAIN assignments) < limit)
  /\ response' = CreateResponse(req)
  /\ assignments' = CreateStore(req)
  /\ UNCHANGED <<users, projects, now, inflight>>

createAssignment(req) == createAssignmentWithin(req, MaxAssign)

\* ------------------------------------------------------- updateAssignment
\* the dates the update works with: a given date, else the stored one
NewStartDate(id, updates) ==
  IF updates.startDate # NoDate THEN updates.startDate ELSE assignments[id].startDate

NewEndDate(id, updates) ==
  IF updates.endDate # NoDate THEN updates.endDate ELSE assignments[id].endDate

DatesGiven(updates) == updates.startDate # NoDate \/ updates.endDate # NoDate

NewPercentage(id, updates) ==
  IF updates.allocationPercentage # NoPct /\ updates.allocationPercentage # 0
  THEN updates.allocationPercentage
  ELSE assignments[id].allocationPercentage

\* the capacity check runs when a percentage or a date is in the request body
CapacityChecked(updates) ==
  \/ (updates.allocationPercentage # NoPct /\ updates.allocationPercentage # 0)
  \/ DatesGiven(updates)

\* the document findByIdAndUpdate(id, updates) leaves in the store: every
\* field of the request body is set, the others keep their stored value
UpdatedAssignment(id, updates) ==
  [engineerId |-> IF updates.engineerId # NoId THEN updates.engineerId
                  ELSE assignments[id].engineerId,
   projectId |-> IF updates.projectId # NoId THEN updates.projectId
                 ELSE assignments[id].projectId,
   allocationPercentage |-> IF updates.allocationPercentage # NoPct
                            THEN updates.allocationPercentage
                            ELSE assignments[id].allocationPercentage,
   startDate |-> NewStartDate(id, updates),
   endDate |-> NewEndDate(id, updates)]

\* the validators of AssignmentSchema, on the resulting document
AssignmentSchemaValid(doc) ==
  /\ doc.allocationPercentage >= MinPercentage
  /\ doc.allocationPercentage <= MaxPercentage
  /\ doc.endDate > doc.startDate

UpdateResponse(id, updates) ==
  IF id \notin DOMAIN assignments
  THEN Plain("updateAssignment", 404, "AssignmentNotFound")
  ELSE IF DatesGiven(updates)
          /\ (NewStartDate(id, updates) = BadDate \/ NewEndDate(id, updates) = BadDate)
  THEN Plain("updateAssignment", 400, "InvalidDateFormat")
  ELSE IF DatesGiven(updates) /\ NewEndDate(id, updates) <= NewStartDate(id, updates)
  THEN Plain("updateAssignment", 400, "EndNotAfterStart")
  ELSE IF updates.allocationPercentage # NoPct
          /\ ~PercentageInRange(updates.allocationPercentage)
  THEN Plain("updateAssignment", 400, "InvalidPercentage")
  ELSE IF CapacityChecked(updates) /\ ~EngineerFound(assignments[id].engineerId)
  THEN Plain("updateAssignment", 500, "InternalServerError")
  ELSE IF CapacityChecked(updates)
          /\ ~CapacitySufficient(
                getAvailableCapacity(assignments[id].engineerId,
                                     NewStartDate(id, updates), NewEndDate(id, updates), id),
                NewPercentage(id, updates))
  THEN Response("updateAssignment", 400, "InsufficientCapacity",
                getAvailableCapacity(assignments[id].engineerId,
                                     NewStartDate(id, updates), NewEndDate(id, updates), id),
                NewPercentage(id, updates), -1, NoId)
  ELSE IF ~AssignmentSchemaValid(UpdatedAssignment(id, updates))
  THEN Plain("updateAssignment", 500, "InternalServerError")
  ELSE Plain("updateAssignment", 200, "AssignmentUpdated")

\* the write made whatever the checks answered
UpdateStoreUnchecked(id, updates) ==
  IF id \in DOMAIN assignments
  THEN [assignments EXCEPT ![id] = UpdatedAssignment(id, updates)]
  ELSE assignments

UpdateStore(id, updates) ==
  IF UpdateResponse(id, updates).status = 200
  THEN [assignments EXCEPT ![id] = UpdatedAssignment(id, updates)]
  ELSE assignments

updateAssignment(id, updates) ==
  /\ response' = UpdateResponse(id, updates)
  /\ assignments' = UpdateStore(id, updates)
  /\ UNCHANGED <<users, projects, now, inflight>>

\* ------------------------------------------------------- deleteAssignment
\* every document removed, not only the one found
RemoveAll(store, id) == [x \in {} |-> store[x]]

Remove(store, id) == [x \in DOMAIN store \ {id} |-> store[x]]

DeleteResponse(id) ==
  IF id \notin DOMAIN assignments
  THEN Plain("deleteAssignment", 404, "AssignmentNotFound")
  ELSE Plain("deleteAssignment", 200, "AssignmentDeleted")

DeleteStore(id) ==
  IF id \in DOMAIN assignments THEN Remove(assignments, id) ELSE assignments

deleteAssignment(id) ==
  /\ response' = DeleteResponse(id)
  /\ assignments' = DeleteStore(id)
  /\ UNCHANGED <<users, projects, now, inflight>>

\* ---------------------------------------------------------- updateProject
ProjectNewStart(id, updates) ==
  IF updates.startDate # NoDate THEN updates.startDate ELSE projects[id].startDate

ProjectNewEnd(id, updates) ==
  IF updates.endDate # NoDate THEN updates.endDate ELSE projects[id].endDate

\* Assignment.find({ projectId: id })
ExistingAssignments(id) == {a \in DOMAIN assignments : assignments[a].projectId = id}

\* the test on the start side only
OutsideNewStart(a, newStartDate, newEndDate) ==
  assignments[a].startDate < newStartDate

OutsideNewRange(a, newStartDate, newEndDate) ==
  assignments[a].startDate < newStartDate \/ assignments[a].endDate > newEndDate

Offending(id, updates) ==
  {a \in ExistingAssignments(id) :
     OutsideNewRange(a, ProjectNewStart(id, updates), ProjectNewEnd(id, updates))}

\* the loop returns at the first assignment outside the new range
FirstOffending(id, updates) ==
  CHOOSE a \in Offending(id, updates) : \A b \in Offending(id, updates) : a <= b

TeamSizeInvalid(updates) ==
  updates.teamSize # NoNum /\ updates.teamSize # 0
  /\ (updates.teamSize < 1 \/ updates.teamSize > MaxTeamSize)

UpdateProjectResponse(id, caller, updates) ==
  IF id \notin DOMAIN projects
  THEN Plain("updateProject", 404, "ProjectNotFound")
  ELSE IF projects[id].managerId # caller
  THEN Plain("updateProject", 403, "AccessDenied")
  ELSE IF DatesGiven(updates)
          /\ (ProjectNewStart(id, updates) = BadDate \/ ProjectNewEnd(id, updates) = BadDate)
  THEN Plain("updateProject", 400, "InvalidDateFormat")
  ELSE IF DatesGiven(updates) /\ ProjectNewEnd(id, updates) <= ProjectNewStart(id, updates)
  THEN Plain("updateProject", 400, "EndNotAfterStart")
  ELSE IF DatesGiven(updates) /\ Offending(id, updates) # {}
  THEN Response("updateProject", 400, "AssignmentsOutsideNewRange", -1, -1, -1,
                assignments[FirstOffending(id, updates)].engineerId)
  ELSE IF TeamSizeInvalid(updates)
  THEN Plain("updateProject", 400, "InvalidTeamSize")
  ELSE Plain("updateProject", 200, "ProjectUpdated")

UpdatedProject(id, updates) ==
  [startDate |-> ProjectNewStart(id, updates),
   endDate |-> ProjectNewEnd(id, updates),
   status |-> IF updates.status # NoStatus THEN updates.status ELSE projects[id].status,
   managerId |-> projects[id].managerId]

UpdateProjectStore(id, caller, updates) ==
  IF UpdateProjectResponse(id, caller, updates).status = 200
  THEN [projects EXCEPT ![id] = UpdatedProject(id, updates)]
  ELSE projects

updateProject(id, caller, updates) ==
  /\ response' = UpdateProjectResponse(id, caller, updates)
  /\ projects' = UpdateProjectStore(id, caller, updates)
  /\ UNCHANGED <<users, assignments, now, inflight>>

\* ---------------------------------------------------------- deleteProject
\* the length test with > 1 in place of > 0
HasSeveralAssignments(id) == Cardinality(ExistingAssignments(id)) > 1

HasAssignments(id) == Cardinality(ExistingAssignments(id)) > 0

DeleteProjectResponse(id, caller) ==
  IF id \notin DOMAIN projects
  THEN Plain("deleteProject", 404, "ProjectNotFound")
  ELSE IF projects[id].managerId # caller
  THEN Plain("deleteProject", 403, "AccessDenied")
  ELSE IF HasAssignments(id)
  THEN Response("deleteProject", 400, "HasAssignments", -1, -1,
                Cardinality(ExistingAssignments(id)), NoId)
  ELSE Plain("deleteProject", 200, "ProjectDeleted")

\* the removal made whatever the response
DeleteProjectStoreUnchecked(id, caller) == [x \in DOMAIN projects \ {id} |-> projects[x]]

DeleteProjectStore(id, caller) ==
  IF DeleteProjectResponse(id, caller).status = 200
  THEN [x \in DOMAIN projects \ {id} |-> projects[x]]
  ELSE projects

deleteProject(id, caller) ==
  /\ response' = DeleteProjectResponse(id, caller)
  /\ projects' = DeleteProjectStore(id, caller)
  /\ UNCHANGED <<users, assignments, now, inflight>>

\* --------------------------------------------------------- updateEngineer
\* caller is the authenticated user; maxCapacity is the body's field
UpdateEngineerResponse(id, caller, maxCapacity) ==
  IF ~(users[caller].role = "manager" \/ caller = id)
  THEN Plain("updateEngineer", 403, "AccessDenied")
  ELSE IF ~EngineerFound(id)
  THEN Plain("updateEngineer", 404, "EngineerNotFound")
  ELSE Plain("updateEngineer", 200, "EngineerUpdated")

UpdateEngineerStore(id, caller, maxCapacity) ==
  IF UpdateEngineerResponse(id, caller, maxCapacity).status = 200 /\ maxCapacity # NoNum
  THEN [users EXCEPT ![id].maxCapacity = maxCapacity]
  ELSE users

updateEngineer(id, caller, maxCapacity) ==
  /\ response' = UpdateEngineerResponse(id, caller, maxCapacity)
  /\ users' = UpdateEngineerStore(id, caller, maxCapacity)
  /\ UNCHANGED <<projects, assignments, now, inflight>>

\* ------------------------------------------------ the read-only handlers
NoInfo ==
  [engineerId |-> NoId, maxCapacity |-> -1, allocatedCapacity |-> -1,
   availableCapacity |-> -1, utilizationPercent |-> Ratio(0, 1)]

\* what a read-only handler answers: the capacity information, the
\* availability windows or the matches it computed
ReadResponse(op, status, reason, info, windows, matches) ==
  [op |-> op, status |-> status, reason |-> reason,
   info |-> info, windows |-> windows, matches |-> matches]

\* GET /engineers/:id/capacity
GetCapacityResponse(id) ==
  LET capacityInfo == getCapacityInfoCall(id)
  IN IF capacityInfo.thrown
     THEN ReadResponse("getEngineerCapacity", 500, "InternalServerError", NoInfo, <<>>, <<>>)
     ELSE ReadResponse("getEngineerCapacity", 200, "ok", capacityInfo.value, <<>>, <<>>)

getEngineerCapacity(id) ==
  /\ response' = GetCapacityResponse(id)
  /\ UNCHANGED <<users, projects, assignments, now, inflight>>

\* GET /engineers/:id/availability
GetAvailabilityResponse(id, futureAssignments) ==
  LET availabilityWindows == getAvailabilityWindowsCall(id, futureAssignments)
  IN IF availabilityWindows.thrown
     THEN ReadResponse("getEngineerAvailability", 500, "InternalServerError",
                       NoInfo, <<>>, <<>>)
     ELSE ReadResponse("getEngineerAvailability", 200, "ok",
                       NoInfo, availabilityWindows.value, <<>>)

getEngineerAvailability(id) ==
  /\ \E futureAssignments \in SortedByStartDate(FutureAssignmentIds(id)) :
       response' = GetAvailabilityResponse(id, futureAssignments)
  /\ UNCHANGED <<users, projects, assignments, now, inflight>>

\* a call of findMatchingEngineers
MatchEngineers(requiredSkills, minCapacity) ==
  /\ \E engineers \in FindEngineers :
       response' = ReadResponse("findMatchingEngineers", 200, "ok", NoInfo, <<>>,
                                findMatchingEngineers(requiredSkills, minCapacity, engineers))
  /\ UNCHANGED <<users, projects, assignments, now, inflight>>

\* ------------------------------------------------------------------ the clock
\* new Date() gives a later instant at a later call
\* the clock moving on while it is before limit
TickUpTo(limit) ==
  /\ now < limit
  /\ now' = now + 1
  /\ UNCHANGED <<users, projects, assignments, response, inflight>>

Tick == TickUpTo(MaxTick)

\* ------------------------------------- createAssignment, one await at a time
\* A request handled by client connection c runs createAssignment up to its
\* next await; the handlers of other requests run in between.
Idle == [pc |-> "idle", req |-> <<>>, available |-> -1, res |-> Plain("none", 0, "none")]

Finished(c, res) == [inflight EXCEPT ![c].pc = "done", ![c].res = res]

\* body checks and User.findById
CreateBegin(c, req) ==
  /\ inflight[c].pc = "idle"
  /\ inflight' =
       IF CreateValidate(req) # "ok"
       THEN [inflight EXCEPT ![c] = [pc |-> "done", req |-> req, available |-> -1,
                                     res |-> Plain("createAssignment", 400, CreateValidate(req))]]
       ELSE [inflight EXCEPT ![c] = [pc |-> "findProject", req |-> req, available |-> -1,
                                     res |-> Plain("none", 0, "none")]]
  /\ UNCHANGED <<users, projects, assignments, response, now>>

\* Project.findById, status and containment
CreateFindProject(c) ==
  /\ inflight[c].pc = "findProject"
  /\ inflight' =
       IF CreateProjectCheck(inflight[c].req) # "ok"
       THEN Finished(c, Plain("createAssignment", 400, CreateProjectCheck(inflight[c].req)))
       ELSE [inflight EXCEPT ![c].pc = "capacity"]
  /\ UNCHANGED <<users, projects, assignments, response, now>>

\* getAvailableCapacity and the comparison with the requested percentage
CreateCheckCapacity(c) ==
  LET req == inflight[c].req
      availableCapacity ==
        getAvailableCapacity(req.engineerId, req.startDate, req.endDate, NoAssignment)
  IN /\ inflight[c].pc = "capacity"
     /\ inflight' =
          IF ~CapacitySufficient(availableCapacity, req.allocationPercentage)
          THEN Finished(c, Response("createAssignment", 400, "InsufficientCapacity",
                                    availableCapacity, req.allocationPercentage, -1, NoId))
          ELSE [inflight EXCEPT ![c].pc = "save", ![c].available = availableCapacity]
     /\ UNCHANGED <<users, projects, assignments, response, now>>

\* assignment.save()
CreateSave(c) ==
  /\ inflight[c].pc = "save"
  /\ Cardinality(DOMAIN assignments) < MaxAssign
  /\ assignments' = Insert(assignments, FreshId(assignments), NewAssignment(inflight[c].req))
  /\ inflight' = Finished(c, Plain("createAssignment", 201, "AssignmentCreated"))
  /\ UNCHANGED <<users, projects, response, now>>

\* ---------------------------------------- deleteProject, one await at a time
\* Project.findById and the ownership test
DeleteProjectBegin(c, id, caller) ==
  /\ inflight[c].pc = "idle"
  /\ inflight' =
       IF id \notin DOMAIN projects
       THEN [inflight EXCEPT ![c] = [pc |-> "done", req |-> [projectId |-> id], available |-> -1,
                                     res |-> Plain("deleteProject", 404, "ProjectNotFound")]]
       ELSE IF projects[id].managerId # caller
       THEN [inflight EXCEPT ![c] = [pc |-> "done", req |-> [projectId |-> id], available |-> -1,
                                     res |-> Plain("deleteProject", 403, "AccessDenied")]]
       ELSE [inflight EXCEPT ![c] = [pc |-> "findAssignments", req |-> [projectId |-> id],
                                     available |-> -1, res |-> Plain("none", 0, "none")]]
  /\ UNCHANGED <<users, projects, assignments, response, now>>

\* Assignment.find({ projectId: id }) and the length test
DeleteProjectFindAssignments(c) ==
  /\ inflight[c].pc = "findAssignments"
  /\ inflight' =
       IF HasAssignments(inflight[c].req.projectId)
       THEN Finished(c, Response("deleteProject", 400, "HasAssignments", -1, -1,
                                 Cardinality(ExistingAssignments(inflight[c].req.projectId)),
                                 NoId))
       ELSE [inflight EXCEPT ![c].pc = "deleteProject"]
  /\ UNCHANGED <<users, projects, assignments, response, now>>

\* Project.findByIdAndDelete(id)
DeleteProjectRemove(c) ==
  /\ inflight[c].pc = "deleteProject"
  /\ projects' = [x \in DOMAIN projects \ {inflight[c].req.projectId} |-> projects[x]]
  /\ inflight' = Finished(c, Plain("deleteProject", 200, "ProjectDeleted"))
  /\ UNCHANGED <<users, assignments, response, now>>

\* ---------------------------------------- updateProject, one await at a time
\* Project.findById, the ownership test and the tests on the new dates, which
\* are the given ones, else those of the project as read here
UpdateProjectBegin(c, id, caller, updates) ==
  LET req == [projectId |-> id, updates |-> updates,
              newStartDate |-> IF id \in DOMAIN projects THEN ProjectNewStart(id, updates)
                               ELSE NoDate,
              newEndDate |-> IF id \in DOMAIN projects THEN ProjectNewEnd(id, updates)
                             ELSE NoDate]
      rejected(reason, status) ==
        [inflight EXCEPT ![c] = [pc |-> "done", req |-> req, available |-> -1,
                                 res |-> Plain("updateProject", status, reason)]]
      goes(pc) ==
        [inflight EXCEPT ![c] = [pc |-> pc, req |-> req, available |-> -1,
                                 res |-> Plain("none", 0, "none")]]
  IN /\ inflight[c].pc = "idle"
     /\ inflight' =
          IF id \notin DOMAIN projects THEN rejected("ProjectNotFound", 404)
          ELSE IF projects[id].managerId # caller THEN rejected("AccessDenied", 403)
          ELSE IF DatesGiven(updates)
                  /\ (req.newStartDate = BadDate \/ req.newEndDate = BadDate)
          THEN rejected("InvalidDateFormat", 400)
          ELSE IF DatesGiven(updates) /\ req.newEndDate <= req.newStartDate
          THEN rejected("EndNotAfterStart", 400)
          ELSE IF DatesGiven(updates) THEN goes("findProjectAssignments")
          ELSE IF TeamSizeInvalid(updates) THEN rejected("InvalidTeamSize", 400)
          ELSE goes("saveProject")
     /\ UNCHANGED <<users, projects, assignments, response, now>>

\* Assignment.find({ projectId: id }) and the loop over what it returns, then
\* the team size test
UpdateProjectFindAssignments(c) ==
  LET req == inflight[c].req
      offending == {a \in ExistingAssignments(req.projectId) :
                      OutsideNewRange(a, req.newStartDate, req.newEndDate)}
      first == CHOOSE a \in offending : \A b \in offending : a <= b
  IN /\ inflight[c].pc = "findProjectAssignments"
     /\ inflight' =
          IF offending # {}
          THEN Finished(c, Response("updateProject", 400, "AssignmentsOutsideNewRange",
                                    -1, -1, -1, assignments[first].engineerId))
          ELSE IF TeamSizeInvalid(req.updates)
          THEN Finished(c, Plain("updateProject", 400, "InvalidTeamSize"))
          ELSE [inflight EXCEPT ![c].pc = "saveProject"]
     /\ UNCHANGED <<users, projects, assignments, response, now>>

\* Project.findByIdAndUpdate(id, updates): the dates written are the ones
\* computed at the start of the request; a project no longer stored is left so
UpdateProjectSave(c) ==
  LET req == inflight[c].req
      id == req.projectId
  IN /\ inflight[c].pc = "saveProject"
     /\ projects' =
          IF id \notin DOMAIN projects THEN projects
          ELSE [projects EXCEPT ![id] =
                  [startDate |-> IF DatesGiven(req.updates) THEN req.newStartDate
                                 ELSE projects[id].startDate,
                   endDate |-> IF DatesGiven(req.updates) THEN req.newEndDate
                               ELSE projects[id].endDate,
                   status |-> IF req.updates.status # NoStatus THEN req.updates.status
                              ELSE projects[id].status,
                   managerId |-> projects[id].managerId]]
     /\ inflight' = Finished(c, Plain("updateProject", 200, "ProjectUpdated"))
     /\ UNCHANGED <<users, assignments, response, now>>

\* ------------------------------------------------------------ initial state
InitSkills(u) ==
  IF u = "e1" THEN {Skill("react", "Title"), Skill("node", "lower")}
  ELSE IF u = "e2" THEN {Skill("react", "lower"), Skill("python", "Title")}
  ELSE {}

InitUsers ==
  [u \in Engineers \cup Managers |->
     [role |-> IF u \in Engineers THEN "engineer" ELSE "manager",
      maxCapacity |-> DefaultMaxCapacity,
      skills |-> InitSkills(u)]]

InitProjects ==
  [p \in ProjectIds |->
     IF p = "p1"
     THEN [startDate |-> 0, endDate |-> MaxTick, status |-> "active", managerId |-> "m1"]
     ELSE [startDate |-> 1, endDate |-> MaxTick, status |-> "on-hold", managerId |-> "m2"]]

Init ==
  /\ users = InitUsers
  /\ projects = InitProjects
  /\ assignments = <<>>
  /\ response = Plain("none", 0, "none")
  /\ now = 0
  /\ inflight = [c \in Clients |-> Idle]

\* ------------------------------------------------- requests, one at a time
Percents == {50, 60}

CreateRequests ==
  [engineerId : Engineers, projectId : {"p1"}, allocationPercentage : Percents,
   startDate : Ticks, endDate : Ticks]

\* an update sets the engineer, or the percentage, or one or both dates
AllUpdates ==
  [engineerId : {NoId} \cup Engineers, projectId : {NoId} \cup ProjectIds,
   allocationPercentage : {NoPct} \cup Percents,
   startDate : {NoDate} \cup Ticks, endDate : {NoDate} \cup Ticks]

FieldsSet(u) ==
  (IF u.engineerId # NoId THEN 1 ELSE 0) + (IF u.projectId # NoId THEN 1 ELSE 0)
  + (IF u.allocationPercentage # NoPct THEN 1 ELSE 0)
  + (IF DatesGiven(u) THEN 1 ELSE 0)

UpdateRequests == {u \in AllUpdates : FieldsSet(u) = 1 /\ u.projectId = NoId}

Next ==
  \/ \E req \in CreateRequests : createAssignment(req)
  \/ \E id \in AssignmentIds, updates \in UpdateRequests : updateAssignment(id, updates)
  \/ \E id \in AssignmentIds : deleteAssignment(id)

Spec == Init /\ [][Next]_vars

\* ------------------------------------- projects changing under assignments
ProjectCreateRequests ==
  [engineerId : {"e1"}, projectId : ProjectIds, allocationPercentage : {50},
   startDate : {0, 1}, endDate : {MaxTick - 1, MaxTick}]

ProjectDateUpdates ==
  [engineerId : {NoId}, projectId : {NoId}, allocationPercentage : {NoPct},
   startDate : {NoDate, 0}, endDate : {NoDate, MaxTick}]

ProjectChanges ==
  [startDate : {NoDate, 1}, endDate : {NoDate, MaxTick - 1},
   status : {NoStatus, "completed"}, teamSize : {NoNum, MaxTeamSize + 1}]

NextProject ==
  \/ \E req \in ProjectCreateRequests : createAssignment(req)
  \/ \E id \in AssignmentIds, updates \in ProjectDateUpdates : updateAssignment(id, updates)
  \/ \E id \in AssignmentIds : deleteAssignment(id)
  \/ \E id \in ProjectIds, caller \in Managers, updates \in ProjectChanges :
       updateProject(id, caller, updates)
  \/ \E id \in ProjectIds, caller \in Managers : deleteProject(id, caller)

SpecProject == Init /\ [][NextProject]_vars

\* --------------------------------------- engineers changing their capacity
CapacityCreateRequests ==
  [engineerId : Engineers, projectId : {"p1"}, allocationPercentage : {60},
   startDate : {0, TicksPerDay}, endDate : {1, TicksPerDay, MaxTick}]

NextCapacity ==
  \/ \E req \in CapacityCreateRequests : createAssignment(req)
  \/ \E id \in AssignmentIds : deleteAssignment(id)
  \/ \E id \in {"e1", "m1"}, caller \in {"m1", "e1", "e2"}, maxCapacity \in {NoNum, 0, 50} :
       updateEngineer(id, caller, maxCapacity)

SpecCapacity == Init /\ [][NextCapacity]_vars

\* ------------------------------------------- two createAssignment requests
\* in flight at once, interleaved at their awaits
RaceRequests ==
  [engineerId : {"e1"}, projectId : {"p1"}, allocationPercentage : Percents,
   startDate : {0, TicksPerDay}, endDate : {1, MaxTick}]

NextRace ==
  \/ \E c \in Clients, req \in RaceRequests : CreateBegin(c, req)
  \/ \E c \in Clients : CreateFindProject(c)
  \/ \E c \in Clients : CreateCheckCapacity(c)
  \/ \E c \in Clients : CreateSave(c)

SpecRace == Init /\ [][NextRace]_vars

\* ------------------------------------- admission of createAssignment requests
\* for either engineer on the active project, with deletions freeing capacity
AdmissionRequests ==
  [engineerId : Engineers, projectId : {"p1"}, allocationPercentage : Percents,
   startDate : {0, 1}, endDate : {MaxTick - 1, MaxTick}]

NextAdmission ==
  \/ \E req \in AdmissionRequests : createAssignment(req)
  \/ \E id \in AssignmentIds : deleteAssignment(id)

SpecAdmission == Init /\ [][NextAdmission]_vars

\* ------------------------------------ requests of every kind of invalidity
ValidationRequests ==
  [engineerId : {NoId, "e1", "m1", UnknownId},
   projectId : {NoId, "p1", "p2", UnknownId},
   allocationPercentage : {NoPct, 0, 50, 60, MaxPercentage + 1},
   startDate : {NoDate, BadDate, 0, 1},
   endDate : {NoDate, BadDate, 1, MaxTick, MaxTick + 1}]

LookupIds == {"e1", "m1", UnknownId}

NextValidate ==
  \/ \E req \in ValidationRequests : createAssignment(req)
  \/ \E id \in AssignmentIds : deleteAssignment(id)
  \/ \E id \in LookupIds : getEngineerCapacity(id)
  \/ \E id \in LookupIds : getEngineerAvailability(id)

SpecValidate == Init /\ [][NextValidate]_vars

\* ------------------------- capacity and availability read as time goes by
WindowRequests ==
  [engineerId : {"e1"}, projectId : {"p1"}, allocationPercentage : {50},
   startDate : {0, 1, TicksPerDay}, endDate : {1, TicksPerDay, MaxTick}]

NextWindows ==
  \/ \E req \in WindowRequests : createAssignment(req)
  \/ \E id \in AssignmentIds : deleteAssignment(id)
  \/ \E maxCapacity \in {0, 50, -10} : updateEngineer("e1", "m1", maxCapacity)
  \/ \E id \in Engineers : getEngineerCapacity(id)
  \/ \E id \in Engineers : getEngineerAvailability(id)
  \/ Tick

SpecWindows == Init /\ [][NextWindows]_vars

\* -------------------------------------------- engineers ranked for a project
MatchCreateRequests ==
  [engineerId : Engineers, projectId : {"p1"}, allocationPercentage : Percents,
   startDate : {0}, endDate : {MaxTick}]

RequiredSkillLists ==
  {<<>>,
   <<Skill("react", "UPPER")>>,
   <<Skill("node", "Title"), Skill("react", "lower")>>,
   <<Skill("python", "lower"), Skill("go", "lower")>>}

MinCapacities == {0, 50, 100}

NextMatch ==
  \/ \E req \in MatchCreateRequests : createAssignment(req)
  \/ \E id \in AssignmentIds : deleteAssignment(id)
  \/ \E requiredSkills \in RequiredSkillLists, minCapacity \in MinCapacities :
       MatchEngineers(requiredSkills, minCapacity)

SpecMatch == Init /\ [][NextMatch]_vars

\* ----------------------------------- writes that are accepted or rejected
WriteCreateRequests ==
  [engineerId : {"e1"}, projectId : ProjectIds, allocationPercentage : Percents,
   startDate : {0}, endDate : {MaxTick - 1, MaxTick}]

WriteUpdates ==
  [engineerId : {NoId}, projectId : {NoId},
   allocationPercentage : {NoPct, 60, MaxPercentage + 1},
   startDate : {NoDate}, endDate : {NoDate, 0, MaxTick}]

WriteProjectChanges ==
  [startDate : {NoDate, 1}, endDate : {NoDate, MaxTick - 1},
   status : {NoStatus}, teamSize : {NoNum, MaxTeamSize + 1}]

NextWrites ==
  \/ \E req \in WriteCreateRequests : createAssignment(req)
  \/ \E id \in AssignmentIds, updates \in WriteUpdates : updateAssignment(id, updates)
  \/ \E id \in AssignmentIds : deleteAssignment(id)
  \/ \E id \in ProjectIds, caller \in Managers, updates \in WriteProjectChanges :
       updateProject(id, caller, updates)
  \/ \E id \in ProjectIds, caller \in Managers : deleteProject(id, caller)

SpecWrites == Init /\ [][NextWrites]_vars

\* ----------------------------- dates and percentages of stored allocations
DateCreateRequests ==
  [engineerId : {"e1"}, projectId : {"p1"},
   allocationPercentage : {0, 50, MaxPercentage + 1},
   startDate : {0, 1, 2}, endDate : {1, 2, MaxTick}]

DateUpdates ==
  [engineerId : {NoId}, projectId : {NoId},
   allocationPercentage : {NoPct, 0, 40, MaxPercentage + 1},
   startDate : {NoDate, 1, 2}, endDate : {NoDate, 1, 2}]

NextDates ==
  \/ \E req \in DateCreateRequests : createAssignment(req)
  \/ \E id \in AssignmentIds, updates \in DateUpdates : updateAssignment(id, updates)

SpecDates == Init /\ [][NextDates]_vars

\* ------------------------------- stored allocations submitted again as is
ResubmitRequests ==
  [engineerId : Engineers, projectId : {"p1"}, allocationPercentage : {40, 50},
   startDate : {0, TicksPerDay}, endDate : {1, MaxTick}]

\* the request body that gives a stored allocation its own dates and percentage
Resubmission(id) ==
  [engineerId |-> NoId, projectId |-> NoId,
   allocationPercentage |-> assignments[id].allocationPercentage,
   startDate |-> assignments[id].startDate, endDate |-> assignments[id].endDate]

NextResubmit ==
  \/ \E req \in ResubmitRequests : createAssignmentWithin(req, MaxAssign + 1)
  \/ \E id \in DOMAIN assignments : updateAssignment(id, Resubmission(id))

SpecResubmit == Init /\ [][NextResubmit]_vars

\* ------------------- a project deleted while assignments to it are created
OrphanRequests ==
  [engineerId : {"e1"}, projectId : {"p1"}, allocationPercentage : Percents,
   startDate : {0, 1}, endDate : {MaxTick - 1, MaxTick}]

NextOrphan ==
  \/ \E c \in Clients, req \in OrphanRequests : CreateBegin(c, req)
  \/ \E c \in Clients : CreateFindProject(c)
  \/ \E c \in Clients : CreateCheckCapacity(c)
  \/ \E c \in Clients : CreateSave(c)
  \/ \E c \in Clients, caller \in Managers : DeleteProjectBegin(c, "p1", caller)
  \/ \E c \in Clients : DeleteProjectFindAssignments(c)
  \/ \E c \in Clients : DeleteProjectRemove(c)

SpecOrphan == Init /\ [][NextOrphan]_vars

\* --------------- a project's dates changed while an assignment to it is created
ShrinkRequests ==
  [engineerId : {"e1"}, projectId : {"p1"}, allocationPercentage : Percents,
   startDate : {0, 1}, endDate : {MaxTick - 1, MaxTick}]

ShrinkUpdates ==
  [startDate : {NoDate, 1}, endDate : {NoDate, MaxTick - 1},
   status : {NoStatus}, teamSize : {NoNum}]

NextShrink ==
  \/ \E c \in Clients, req \in ShrinkRequests : CreateBegin(c, req)
  \/ \E c \in Clients : CreateFindProject(c)
  \/ \E c \in Clients : CreateCheckCapacity(c)
  \/ \E c \in Clients : CreateSave(c)
  \/ \E c \in Clients, updates \in ShrinkUpdates : UpdateProjectBegin(c, "p1", "m1", updates)
  \/ \E c \in Clients : UpdateProjectFindAssignments(c)
  \/ \E c \in Clients : UpdateProjectSave(c)

SpecShrink == Init /\ [][NextShrink]_vars

\* ------------------- dates and a clock that reach the far-future sentinel
SentinelProjectChanges ==
  [startDate : {NoDate}, endDate : {Sentinel, Sentinel + 1},
   status : {NoStatus}, teamSize : {NoNum}]

SentinelRequests ==
  [engineerId : {"e1"}, projectId : {"p1"}, allocationPercentage : {50},
   startDate : {0, MaxTick}, endDate : {MaxTick, Sentinel, Sentinel + 1}]

NextSentinel ==
  \/ \E updates \in SentinelProjectChanges : updateProject("p1", "m1", updates)
  \/ \E req \in SentinelRequests : createAssignment(req)
  \/ \E id \in Engineers : getEngineerAvailability(id)
  \/ TickUpTo(Sentinel + 1)

SpecSentinel == Init /\ [][NextSentinel]_vars

\* ================================================================= claims
\* the allocations of engineer e whose [startDate, endDate] contains instant t
AllocationsAt(e, t) ==
  {id \in DOMAIN assignments :
     /\ assignments[id].engineerId = e
     /\ assignments[id].startDate <= t
     /\ t <= assignments[id].endDate}

OverAllocated(e) ==
  \E t \in Ticks : SumPct(assignments, AllocationsAt(e, t)) > users[e].maxCapacity

\* C1: after any sequence of atomically executed createAssignment,
\* updateAssignment and deleteAssignment requests, with maxCapacity left
\* unchanged, at every instant the allocations of an engineer that contain it
\* sum to at most the engineer's maxCapacity.
C1_CapacityBound ==
  \A e \in Engineers : \A t \in Ticks :
    SumPct(assignments, AllocationsAt(e, t)) <= users[e].maxCapacity

\* ---------------------------------------------------------------------- C2
Accepted(c) == inflight[c].pc = "done" /\ inflight[c].res.status = 201

\* client c's save is the step taken
Saves(c) == inflight[c].pc = "save" /\ inflight'[c].pc = "done"

\* C2: the capacity check and the save of createAssignment are separate
\* steps.  Whenever a save makes an engineer over-allocated, the capacity the
\* saving request saw at its check is larger than the capacity at the moment
\* of the save: another request was saved in between, and both were accepted.
C2_OverAllocationFromStaleCheck ==
  [][\A e \in Engineers :
       (~OverAllocated(e) /\ OverAllocated(e)')
         => \E c \in Clients :
              /\ Saves(c)
              /\ inflight[c].req.engineerId = e
              /\ inflight[c].available >= inflight[c].req.allocationPercentage
              /\ inflight[c].available >
                   getAvailableCapacity(e, inflight[c].req.startDate,
                                        inflight[c].req.endDate, NoAssignment)
              /\ \E d \in Clients \ {c} : Accepted(d)]_vars

\* both requests accepted, each fits alone, together they exceed maxCapacity
C2_BothAcceptedOverAllocated ==
  /\ \A c \in Clients : Accepted(c)
  /\ \A id \in DOMAIN assignments :
       assignments[id].allocationPercentage <= users[assignments[id].engineerId].maxCapacity
  /\ OverAllocated("e1")

\* ---------------------------------------------------------------------- C3
\* max(0, M - S) with S summed over the allocations of e, other than the
\* excluded one, that overlap the closed range [from, to]
ClosedOverlapCapacity(e, from, to, excluded) ==
  LET S == SumPct(assignments,
                  {id \in DOMAIN assignments \ {excluded} :
                     /\ assignments[id].engineerId = e
                     /\ assignments[id].startDate <= to
                     /\ assignments[id].endDate >= from})
      M == users[e].maxCapacity
  IN IF M - S > 0 THEN M - S ELSE 0

Ranges == {r \in Ticks \X Ticks : r[1] <= r[2]}

\* C3 as stated: the overlap test is made on the range as it is passed
C3_OverlapOnGivenRange ==
  \A e \in Engineers : \A r \in Ranges : \A x \in {NoAssignment} \cup DOMAIN assignments :
    users[e].maxCapacity \in 1..100
      => getAvailableCapacity(e, r[1], r[2], x) = ClosedOverlapCapacity(e, r[1], r[2], x)

\* C3, amended: getAvailableCapacity returns max(0, M - S) where S sums the
\* full percentage of exactly the allocations of the engineer, other than the
\* excluded one, with startDate <= the end of rangeEnd's day and endDate >= the
\* start of rangeStart's day; other engineers' allocations and allocations
\* outside those days contribute nothing.
C3_OverlapOnWholeDays ==
  \A e \in Engineers : \A r \in Ranges : \A x \in {NoAssignment} \cup DOMAIN assignments :
    users[e].maxCapacity \in 1..100
      => getAvailableCapacity(e, r[1], r[2], x)
           = ClosedOverlapCapacity(e, startOfDay(r[1]), endOfDay(r[2]), x)

\* e1 holds an allocation that ends on the first instant of the range, e2
\* holds an allocation too; the first is counted in full unless excluded
C3_BoundaryCounted ==
  \E a \in DOMAIN assignments, b \in DOMAIN assignments :
    /\ assignments[a].engineerId = "e1"
    /\ assignments[a].endDate = TicksPerDay
    /\ assignments[b].engineerId = "e2"
    /\ users["e1"].maxCapacity = 100
    /\ getAvailableCapacity("e1", TicksPerDay, MaxTick, NoAssignment) = 40
    /\ getAvailableCapacity("e1", TicksPerDay, MaxTick, a) = 100

\* ---------------------------------------------------------------------- C4
\* C4: getAvailableCapacity is never negative, for every engineer, every range
\* (given or defaulted) and every excluded allocation, also when the
\* overlapping allocations sum to more than maxCapacity.
C4_NeverNegative ==
  \A e \in Engineers :
    \A from \in Ticks \cup {NoDate} : \A to \in Ticks \cup {NoDate} :
      \A x \in {NoAssignment} \cup DOMAIN assignments :
        getAvailableCapacity(e, from, to, x) >= 0

\* maxCapacity was lowered below what the engineer already holds
C4_FlooredWhenOverAllocated ==
  \E e \in Engineers :
    /\ OverAllocated(e)
    /\ response.op = "updateEngineer"
    /\ getAvailableCapacity(e, NoDate, NoDate, NoAssignment) = 0

\* ---------------------------------------------------------------------- C5
\* C5: a createAssignment request that passes every check before the capacity
\* check is accepted exactly when getAvailableCapacity over its dates is at
\* least the requested percentage; otherwise it is rejected as
\* InsufficientCapacity, the response carries the available and the requested
\* amount, and nothing is stored.
C5_AcceptedIffCapacity ==
  \A req \in CreateRequests :
    CreatePrecheck(req) = "ok" =>
      LET available == getAvailableCapacity(req.engineerId, req.startDate,
                                            req.endDate, NoAssignment)
      IN /\ available >= req.allocationPercentage
              => /\ CreateResponse(req).status = 201
                 /\ AssignmentIds \ DOMAIN assignments # {}
                      => \E id \in DOMAIN CreateStore(req) \ DOMAIN assignments :
                           CreateStore(req)[id] = NewAssignment(req)
         /\ available < req.allocationPercentage
              => /\ CreateResponse(req) =
                      Response("createAssignment", 400, "InsufficientCapacity",
                               available, req.allocationPercentage, -1, NoId)
                 /\ CreateStore(req) = assignments

\* the engineer holds 60% over the whole project and was asked for 50% inside
\* it: rejected with available 40, requested 50
C5_RejectedWithAmounts ==
  /\ response = Response("createAssignment", 400, "InsufficientCapacity", 40, 50, -1, NoId)
  /\ \E id \in DOMAIN assignments :
       /\ assignments[id].allocationPercentage = 60
       /\ assignments[id].startDate = 0
       /\ assignments[id].endDate = MaxTick
       /\ getAvailableCapacity(assignments[id].engineerId, 1, MaxTick - 1, NoAssignment) = 40

\* ---------------------------------------------------------------------- C6
\* C6: after any sequence of atomically executed createAssignment,
\* updateAssignment and updateProject requests, every stored allocation lies
\* within the dates of its project.
C6_WithinProjectDates ==
  \A id \in DOMAIN assignments :
    assignments[id].projectId \in DOMAIN projects
      => /\ assignments[id].startDate >= projects[assignments[id].projectId].startDate
         /\ assignments[id].endDate <= projects[assignments[id].projectId].endDate

\* ---------------------------------------------------------------------- C7
AnyCreateRequests ==
  [engineerId : Engineers, projectId : ProjectIds, allocationPercentage : {50, 100},
   startDate : Ticks, endDate : Ticks]

\* C7: a createAssignment request against a project whose status is neither
\* planning nor active is rejected and stores nothing, whatever the capacity
\* of the engineer; when its body and engineer are valid the rejection is
\* ProjectNotAssignable.
C7_ClosedProjectRejected ==
  \A req \in AnyCreateRequests :
    (/\ req.projectId \in DOMAIN projects
     /\ projects[req.projectId].status \notin {"planning", "active"})
      => /\ CreateResponse(req).status = 400
         /\ CreateStore(req) = assignments
         /\ CreateValidate(req) = "ok"
              => CreateResponse(req) = Plain("createAssignment", 400, "ProjectNotAssignable")

\* a request was rejected as ProjectNotAssignable while e1 had all of its
\* capacity free; one project is completed, the other on hold
C7_RejectedWithFreeCapacity ==
  /\ response = Plain("createAssignment", 400, "ProjectNotAssignable")
  /\ "p1" \in DOMAIN projects /\ projects["p1"].status = "completed"
  /\ "p2" \in DOMAIN projects /\ projects["p2"].status = "on-hold"
  /\ getAvailableCapacity("e1", 0, MaxTick, NoAssignment) = 100

\* ---------------------------------------------------------------------- C8
\* C8: an updateAssignment request that extends an allocation (later endDate
\* or earlier startDate) goes through only while the allocation's project is
\* planning or active.
C8_ExtendedOnlyWhileAssignable ==
  [][\A id \in DOMAIN assignments :
       (/\ response'.op = "updateAssignment"
        /\ id \in DOMAIN assignments'
        /\ \/ assignments'[id].endDate > assignments[id].endDate
           \/ assignments'[id].startDate < assignments[id].startDate)
         => /\ assignments[id].projectId \in DOMAIN projects
            /\ projects[assignments[id].projectId].status \in {"planning", "active"}]_vars

\* ---------------------------------------------------------------------- C9
\* the allocations of project id outside [newStart, newEnd]
OutsideRange(id, newStart, newEnd) ==
  {a \in DOMAIN assignments :
     /\ assignments[a].projectId = id
     /\ (assignments[a].startDate < newStart \/ assignments[a].endDate > newEnd)}

\* C9: an updateProject request of the project's manager that changes
\* startDate and/or endDate (team size absent or valid) is rejected when an
\* allocation of the project starts before the new start or ends after the
\* new end, the rejection names the engineer of such an allocation, and the
\* project is left as stored; when every allocation stays inside the new
\* range and the new end is after the new start, the new dates are stored.
C9_ProjectDatesKeepAllocations ==
  \A id \in DOMAIN projects : \A updates \in ProjectChanges :
    (DatesGiven(updates) /\ ~TeamSizeInvalid(updates)) =>
      LET caller == projects[id].managerId
          newStart == IF updates.startDate # NoDate THEN updates.startDate
                      ELSE projects[id].startDate
          newEnd == IF updates.endDate # NoDate THEN updates.endDate
                    ELSE projects[id].endDate
          outside == OutsideRange(id, newStart, newEnd)
          res == UpdateProjectResponse(id, caller, updates)
          after == UpdateProjectStore(id, caller, updates)
      IN /\ outside # {}
              => /\ res.status = 400
                 /\ after = projects
                 /\ newEnd > newStart
                      => /\ res.reason = "AssignmentsOutsideNewRange"
                         /\ \E a \in outside : res.who = assignments[a].engineerId
         /\ (outside = {} /\ newEnd > newStart)
              => /\ res.status = 200
                 /\ after[id].startDate = newStart
                 /\ after[id].endDate = newEnd
                 /\ \A other \in DOMAIN projects \ {id} : after[other] = projects[other]

\* a date change was rejected naming e1, whose allocation on an unchanged
\* project does not fit the dates asked for
C9_RejectedNamingEngineer ==
  /\ response = Response("updateProject", 400, "AssignmentsOutsideNewRange",
                         -1, -1, -1, "e1")
  /\ \E a \in DOMAIN assignments :
       /\ assignments[a].engineerId = "e1"
       /\ assignments[a].projectId = "p1"
       /\ (assignments[a].startDate < 1 \/ assignments[a].endDate > MaxTick - 1)
       /\ projects["p1"].startDate <= assignments[a].startDate
       /\ projects["p1"].endDate >= assignments[a].endDate

\* --------------------------------------------------------------------- C10
\* C10: deleteProject by the project's manager is rejected exactly when an
\* allocation references the project; the rejection carries the number of
\* referencing allocations and leaves the projects as stored; with no
\* referencing allocation the project is removed and the others stay; no
\* deleteProject request changes an allocation.
C10_DeleteNeedsNoDependents ==
  /\ [](\A id \in DOMAIN projects :
          LET caller == projects[id].managerId
              n == Cardinality({a \in DOMAIN assignments : assignments[a].projectId = id})
              res == DeleteProjectResponse(id, caller)
              after == DeleteProjectStore(id, caller)
          IN /\ n >= 1 => /\ res = Response("deleteProject", 400, "HasAssignments",
                                            -1, -1, n, NoId)
                          /\ after = projects
             /\ n = 0 => /\ res.status = 200
                         /\ DOMAIN after = DOMAIN projects \ {id}
                         /\ \A other \in DOMAIN after : after[other] = projects[other])
  /\ [][response'.op = "deleteProject" => assignments' = assignments]_vars

\* a deletion was refused with the count of the two allocations of p1
C10_RefusedWithCount ==
  /\ response = Response("deleteProject", 400, "HasAssignments", -1, -1, 2, NoId)
  /\ Cardinality(ExistingAssignments("p1")) = 2
  /\ "p1" \in DOMAIN projects

\* --------------------------------------------------------------------- C11
\* the seven checks as the validator's contract numbers them; the number of
\* the first one a request fails, 0 when it passes them all
FirstFailedCheck(req) ==
  IF \/ req.engineerId = NoId \/ req.projectId = NoId
     \/ req.allocationPercentage = NoPct
     \/ req.startDate = NoDate \/ req.endDate = NoDate
  THEN 1
  ELSE IF req.startDate = BadDate \/ req.endDate = BadDate \/ ~(req.endDate > req.startDate)
  THEN 2
  ELSE IF req.allocationPercentage \notin 1..100
  THEN 3
  ELSE IF ~(req.engineerId \in DOMAIN users /\ users[req.engineerId].role = "engineer")
  THEN 4
  ELSE IF ~(/\ req.projectId \in DOMAIN projects
            /\ projects[req.projectId].status \in {"planning", "active"})
  THEN 5
  ELSE IF ~(/\ req.startDate >= projects[req.projectId].startDate
            /\ req.endDate <= projects[req.projectId].endDate)
  THEN 6
  ELSE IF ~(getAvailableCapacity(req.engineerId, req.startDate, req.endDate, NoAssignment)
              >= req.allocationPercentage)
  THEN 7
  ELSE 0

\* the check a response of createAssignment reports as failed
CheckOfReason(reason) ==
  CASE reason = "MissingFields" -> 1
    [] reason \in {"InvalidDateFormat", "EndNotAfterStart"} -> 2
    [] reason = "InvalidPercentage" -> 3
    [] reason = "EngineerNotFound" -> 4
    [] reason \in {"ProjectNotFound", "ProjectNotAssignable"} -> 5
    [] reason = "OutOfProjectBounds" -> 6
    [] reason = "InsufficientCapacity" -> 7
    [] OTHER -> 0

\* C11: the outcome of a createAssignment request is the rejection of the
\* lowest-numbered check it fails, among 1 required fields, 2 dates, 3
\* percentage in 1..100, 4 engineer, 5 project, 6 containment, 7 capacity; a
\* percentage that is present but outside 1..100 is InvalidPercentage; the
\* request is accepted only if it passes all seven.
C11_LowestFailingCheck ==
  \A req \in ValidationRequests :
    /\ CreateResponse(req).status = 201 <=> FirstFailedCheck(req) = 0
    /\ CreateResponse(req).status # 201
         => CheckOfReason(CreateResponse(req).reason) = FirstFailedCheck(req)

\* --------------------------------------------------------------------- C12
\* C12: for an engineer (maxCapacity within 0..100) with no allocation whose
\* endDate >= today, getAvailabilityWindows returns exactly one window, from
\* the start of today to the far-future sentinel, at the engineer's
\* maxCapacity.
C12_OneWindowAtFullCapacity ==
  \A e \in Engineers :
    (users[e].maxCapacity \in 0..100
     /\ ~\E id \in DOMAIN assignments :
           assignments[id].engineerId = e /\ assignments[id].endDate >= startOfDay(now))
      => \A futureAssignments \in SortedByStartDate(FutureAssignmentIds(e)) :
           getAvailabilityWindows(e, futureAssignments)
             = <<[startDate |-> startOfDay(now), endDate |-> Sentinel,
                  availableCapacity |-> users[e].maxCapacity]>>

\* --------------------------------------------------------------------- C13
\* C13: for every engineer and every stored set of allocations, overlapping
\* and nested ones included, in whatever order the query returns allocations
\* of equal startDate, the windows getAvailabilityWindows returns all have
\* availableCapacity > 0, are in ascending order of startDate, and each ends
\* no later than the next one starts.
C13_WindowsOrderedDisjoint ==
  \A e \in Engineers :
    \A futureAssignments \in SortedByStartDate(FutureAssignmentIds(e)) :
      LET windows == getAvailabilityWindows(e, futureAssignments)
      IN /\ \A i \in 1..Len(windows) : windows[i].availableCapacity > 0
         /\ \A i \in 1..(Len(windows) - 1) :
              /\ windows[i].startDate <= windows[i + 1].startDate
              /\ windows[i].endDate <= windows[i + 1].startDate

\* the availability of e1 was read while it held two allocations with a gap
\* between them: the gap and the time after the last one came back, in order
C13_GapThenTrailing ==
  /\ response.op = "getEngineerAvailability"
  /\ response.status = 200
  /\ Cardinality(FutureAssignmentIds("e1")) = 2
  /\ Len(response.windows) = 2
  /\ response.windows[1].endDate <= response.windows[2].startDate
  /\ response.windows[2].endDate = Sentinel
  /\ \E futureAssignments \in SortedByStartDate(FutureAssignmentIds("e1")) :
       response.windows = getAvailabilityWindows("e1", futureAssignments)

\* --------------------------------------------------------------------- C14
\* C14: called with an empty requiredSkills list, findMatchingEngineers gives
\* every engineer it returns matchScore 100 and empty matchingSkills and
\* missingSkills, for any minCapacity and any order of the engineers found.
C14_EmptyRequirementScores100 ==
  \A minCapacity \in MinCapacities : \A engineers \in FindEngineers :
    LET matches == findMatchingEngineers(<<>>, minCapacity, engineers)
    IN \A i \in 1..Len(matches) :
         /\ matches[i].matchScore.num = 100 * matches[i].matchScore.den
         /\ matches[i].matchScore.den > 0
         /\ matches[i].matchingSkills = <<>>
         /\ matches[i].missingSkills = <<>>

\* a call with no required skill returned both engineers, each at score 100,
\* while one of them held an allocation
C14_BothReturnedAt100 ==
  /\ response.op = "findMatchingEngineers"
  /\ Len(response.matches) = 2
  /\ \A i \in 1..2 :
       /\ response.matches[i].matchScore = Ratio(100, 1)
       /\ response.matches[i].matchingSkills = <<>>
       /\ response.matches[i].missingSkills = <<>>
  /\ response.matches[1].availableCapacity > response.matches[2].availableCapacity

\* --------------------------------------------------------------------- C15
\* matchScore a > matchScore b, as quotients with positive denominators
ScoreAbove(a, b) == a.matchScore.num * b.matchScore.den > b.matchScore.num * a.matchScore.den

ScoreEqual(a, b) == a.matchScore.num * b.matchScore.den = b.matchScore.num * a.matchScore.den

\* C15: findMatchingEngineers returns, once each, exactly the users with role
\* engineer whose getAvailableCapacity over the default range [today,
\* sentinel] is >= minCapacity, each with that capacity, ordered by matchScore
\* descending and, among equal matchScore, by availableCapacity descending.
C15_QualifyingEngineersRanked ==
  \A requiredSkills \in RequiredSkillLists : \A minCapacity \in MinCapacities :
    \A engineers \in FindEngineers :
      LET matches == findMatchingEngineers(requiredSkills, minCapacity, engineers)
          qualifying ==
            {u \in DOMAIN users :
               /\ users[u].role = "engineer"
               /\ getAvailableCapacity(u, NoDate, NoDate, NoAssignment) >= minCapacity}
      IN /\ {matches[i].engineer : i \in 1..Len(matches)} = qualifying
         /\ Len(matches) = Cardinality(qualifying)
         /\ \A i \in 1..Len(matches) :
              matches[i].availableCapacity =
                getAvailableCapacity(matches[i].engineer, NoDate, NoDate, NoAssignment)
         /\ \A i, j \in 1..Len(matches) :
              i < j => \/ ScoreAbove(matches[i], matches[j])
                       \/ /\ ScoreEqual(matches[i], matches[j])
                          /\ matches[i].availableCapacity >= matches[j].availableCapacity

\* one engineer was left out for having 40% free when more was asked for; the
\* other came back with one of the two required skills matched
C15_FilteredByCapacity ==
  /\ response.op = "findMatchingEngineers"
  /\ Len(response.matches) = 1
  /\ response.matches[1].availableCapacity = 100
  /\ response.matches[1].matchScore = Ratio(100, 2)
  /\ \E e \in Engineers :
       /\ e # response.matches[1].engineer
       /\ getAvailableCapacity(e, NoDate, NoDate, NoAssignment) = 40

\* --------------------------------------------------------------------- C16
\* the allocations of e that overlap the closed range [from, to]
OverlappingRange(e, from, to) ==
  {id \in DOMAIN assignments :
     /\ assignments[id].engineerId = e
     /\ assignments[id].startDate <= to
     /\ assignments[id].endDate >= from}

\* C16 as stated: overlap taken on the range as it is passed
C16_ExcludeAddsBackOnGivenRange ==
  \A e \in Engineers : \A r \in Ranges : \A a \in OverlappingRange(e, r[1], r[2]) :
    SumPct(assignments, OverlappingRange(e, r[1], r[2])) <= users[e].maxCapacity
      => getAvailableCapacity(e, r[1], r[2], a)
           = getAvailableCapacity(e, r[1], r[2], NoAssignment)
               + assignments[a].allocationPercentage

\* C16, amended: for every stored allocation a of engineer e and every range
\* r whose days a overlaps, if the allocations of e that overlap the days of
\* r (from the start of r's first day to the end of its last day, a included)
\* sum to at most maxCapacity, then getAvailableCapacity(e, r, exclude = a) =
\* getAvailableCapacity(e, r) + a.allocationPercentage.
C16_ExcludeAddsBackOnWholeDays ==
  \A e \in Engineers : \A r \in Ranges :
    \A a \in OverlappingRange(e, startOfDay(r[1]), endOfDay(r[2])) :
      SumPct(assignments, OverlappingRange(e, startOfDay(r[1]), endOfDay(r[2])))
          <= users[e].maxCapacity
        => getAvailableCapacity(e, r[1], r[2], a)
             = getAvailableCapacity(e, r[1], r[2], NoAssignment)
                 + assignments[a].allocationPercentage

\* e1 is fully booked by two overlapping allocations: nothing is free over
\* their common days, and excluding either one frees exactly its percentage
C16_FullyBookedExcludeFreesOne ==
  /\ users["e1"].maxCapacity = 100
  /\ Cardinality(OverlappingRange("e1", 1, 1)) = 2
  /\ getAvailableCapacity("e1", 1, 1, NoAssignment) = 0
  /\ \A a \in OverlappingRange("e1", 1, 1) :
       getAvailableCapacity("e1", 1, 1, a) = assignments[a].allocationPercentage

\* --------------------------------------------------------------------- C17
\* C17: for every engineer, getCapacityInfo returns the stored maxCapacity,
\* availableCapacity = getAvailableCapacity over the default range,
\* allocatedCapacity = maxCapacity - availableCapacity and utilizationPercent
\* = allocatedCapacity / maxCapacity * 100, so that allocated + available =
\* maxCapacity and 0 <= utilizationPercent <= 100.
C17_CapacityInfoConsistent ==
  \A e \in Engineers :
    LET info == getCapacityInfo(e)
    IN /\ info.maxCapacity = users[e].maxCapacity
       /\ info.availableCapacity = getAvailableCapacity(e, NoDate, NoDate, NoAssignment)
       /\ info.allocatedCapacity = info.maxCapacity - info.availableCapacity
       /\ info.allocatedCapacity + info.availableCapacity = users[e].maxCapacity
       /\ info.utilizationPercent.den # 0
       /\ info.utilizationPercent.num * users[e].maxCapacity
            = info.allocatedCapacity * 100 * info.utilizationPercent.den
       /\ IF info.utilizationPercent.den > 0
          THEN /\ 0 <= info.utilizationPercent.num
               /\ info.utilizationPercent.num <= 100 * info.utilizationPercent.den
          ELSE /\ 0 >= info.utilizationPercent.num
               /\ info.utilizationPercent.num >= 100 * info.utilizationPercent.den

\* --------------------------------------------------------------------- C18
\* C18: for an engineer whose maxCapacity is 0, getAvailableCapacity returns 0
\* for every range, and getCapacityInfo reports maxCapacity 0 and
\* utilizationPercent 0, a defined number, whatever the engineer's allocations.
C18_ZeroCapacity ==
  \A e \in Engineers :
    users[e].maxCapacity = 0
      => /\ \A from \in Ticks \cup {NoDate} : \A to \in Ticks \cup {NoDate} :
              getAvailableCapacity(e, from, to, NoAssignment) = 0
         /\ getCapacityInfo(e).maxCapacity = 0
         /\ getCapacityInfo(e).utilizationPercent.den # 0
         /\ getCapacityInfo(e).utilizationPercent.num = 0

\* --------------------------------------------------------------------- C19
\* the ids that match no user, or a user whose role is not engineer
NotAnEngineer == {id \in LookupIds \cup Managers : ~(id \in DOMAIN users /\ users[id].role = "engineer")}

\* C19: for an id that matches no user or a user who is not an engineer,
\* getAvailableCapacity, getCapacityInfo and getAvailabilityWindows throw
\* 'Engineer not found' and return no value; a createAssignment request with
\* such an engineerId is rejected and inserts nothing, and the rejection is
\* EngineerNotFound when the request's fields, dates and percentage are valid.
C19_EngineerNotFound ==
  /\ \A id \in NotAnEngineer :
       /\ \A from \in Ticks \cup {NoDate} : \A to \in Ticks \cup {NoDate} :
            \A x \in {NoAssignment} \cup DOMAIN assignments :
              getAvailableCapacityCall(id, from, to, x) = Thrown("Engineer not found")
       /\ getCapacityInfoCall(id) = Thrown("Engineer not found")
       /\ \A futureAssignments \in SortedByStartDate(FutureAssignmentIds(id)) :
            getAvailabilityWindowsCall(id, futureAssignments) = Thrown("Engineer not found")
  /\ \A req \in ValidationRequests :
       req.engineerId \in NotAnEngineer
         => /\ CreateResponse(req).status = 400
            /\ CreateStore(req) = assignments
            /\ FirstFailedCheck(req) = 4
                 => CreateResponse(req) = Plain("createAssignment", 400, "EngineerNotFound")

\* a request naming a user who is no engineer was rejected as
\* EngineerNotFound while an allocation was stored, and the services fail
\* for the manager and for the unknown id
C19_RejectedForNonEngineer ==
  /\ response = Plain("createAssignment", 400, "EngineerNotFound")
  /\ DOMAIN assignments # {}
  /\ NotAnEngineer = {"m1", "m2", UnknownId}
  /\ getCapacityInfoCall("m1").thrown
  /\ getAvailabilityWindowsCall(UnknownId, <<>>).thrown

\* --------------------------------------------------------------------- C20
WriteOps == {"createAssignment", "updateAssignment", "updateProject", "deleteProject"}

\* C20: a createAssignment, updateAssignment, updateProject or deleteProject
\* request that is rejected leaves every stored user, project and allocation
\* as it was; an accepted request writes only the collection it is about;
\* an accepted createAssignment inserts exactly one allocation, carrying the
\* requested engineer, project, percentage and dates, and changes no other.
C20_RejectionWritesNothing ==
  /\ [](/\ \A req \in AnyCreateRequests :
             IF CreateResponse(req).status # 201 THEN CreateStore(req) = assignments
             ELSE AssignmentIds \ DOMAIN assignments # {}
                    => /\ Cardinality(DOMAIN CreateStore(req) \ DOMAIN assignments) = 1
                       /\ \A id \in DOMAIN CreateStore(req) \ DOMAIN assignments :
                            /\ CreateStore(req)[id].engineerId = req.engineerId
                            /\ CreateStore(req)[id].projectId = req.projectId
                            /\ CreateStore(req)[id].allocationPercentage
                                 = req.allocationPercentage
                            /\ CreateStore(req)[id].startDate = req.startDate
                            /\ CreateStore(req)[id].endDate = req.endDate
                       /\ \A id \in DOMAIN assignments :
                            CreateStore(req)[id] = assignments[id]
        /\ \A id \in AssignmentIds : \A updates \in UpdateRequests \cup WriteUpdates :
             UpdateResponse(id, updates).status # 200
               => UpdateStore(id, updates) = assignments
        /\ \A id \in ProjectIds : \A caller \in Managers :
             /\ \A updates \in ProjectChanges \cup WriteProjectChanges :
                  UpdateProjectResponse(id, caller, updates).status # 200
                    => UpdateProjectStore(id, caller, updates) = projects
             /\ DeleteProjectResponse(id, caller).status # 200
                  => DeleteProjectStore(id, caller) = projects)
  /\ [][/\ (response'.op \in WriteOps /\ response'.status \notin {200, 201})
             => (users' = users /\ projects' = projects /\ assignments' = assignments)
        /\ response'.op \in {"createAssignment", "updateAssignment"}
             => (users' = users /\ projects' = projects)
        /\ response'.op \in {"updateProject", "deleteProject"}
             => (users' = users /\ assignments' = assignments)]_vars

\* an update asking 60% for one of the two 50% allocations that fill e1 was
\* rejected for lack of capacity, and both are still stored at 50%
C20_RejectedUpdateKeptStore ==
  /\ response = Response("updateAssignment", 400, "InsufficientCapacity", 50, 60, -1, NoId)
  /\ Cardinality(DOMAIN assignments) = 2
  /\ \A id \in DOMAIN assignments :
       assignments[id].engineerId = "e1" /\ assignments[id].allocationPercentage = 50

\* --------------------------------------------------------------------- C21
\* the windows the rule of C21 lists for the allocations a_1..a_n in the order
\* given: position 0 is the leading window, position i in 1..n-1 the gap after
\* a_i, position n the trailing window, each at the capacity given
C21_Listed(order, capacity) ==
  LET n == Len(order)
      a(i) == assignments[order[i]]
      candidate(i) ==
        IF i = 0 THEN Window(startOfDay(now), a(1).startDate, capacity)
        ELSE IF i = n THEN Window(a(n).endDate, Sentinel, capacity)
        ELSE Window(a(i).endDate, a(i + 1).startDate, capacity)
      present(i) ==
        IF i = 0 THEN a(1).startDate > startOfDay(now)
        ELSE IF i = n THEN TRUE
        ELSE a(i + 1).startDate > a(i).endDate
      positions == SelectSeq([k \in 1..(n + 1) |-> k - 1], present)
  IN [k \in 1..Len(positions) |-> candidate(positions[k])]

\* C21: for an engineer with n >= 1 allocations whose endDate >= today, taken
\* in the order the query sorts them by startDate, getAvailabilityWindows
\* returns exactly the leading window iff the first allocation starts after
\* today, a gap window for each consecutive pair iff the next starts after the
\* current ends, and always the trailing window, each at the engineer's
\* maxCapacity; the result has between 1 and n+1 windows, and two calls on
\* the same stored allocations return the same windows.
C21_WindowsAsListed ==
  \A e \in Engineers :
    FutureAssignmentIds(e) # {}
      => /\ \A futureAssignments \in SortedByStartDate(FutureAssignmentIds(e)) :
              LET windows == getAvailabilityWindows(e, futureAssignments)
              IN /\ windows = C21_Listed(futureAssignments, users[e].maxCapacity)
                 /\ Len(windows) >= 1
                 /\ Len(windows) <= Len(futureAssignments) + 1
         /\ \A first, second \in SortedByStartDate(FutureAssignmentIds(e)) :
              getAvailabilityWindows(e, first) = getAvailabilityWindows(e, second)

\* --------------------------------------------------------------------- C22
\* the required-skill lists C22 is checked on: every list of one or two skill
\* names in any casing, and the lists the requests use
C22_SkillNames == {Skill(letters, casing) : letters \in {"react", "node", "go"},
                                             casing \in {"lower", "Title", "UPPER"}}

C22_SkillLists ==
  {<<a>> : a \in C22_SkillNames}
    \cup {<<a, b>> : a \in C22_SkillNames, b \in C22_SkillNames}
    \cup (RequiredSkillLists \ {<<>>})

\* the engineer has a skill written with the same letters, in whatever casing
C22_Known(e, skill) == \E own \in users[e].skills : own[1] = skill[1]

\* the elements of a list
C22_Elements(list) == {list[i] : i \in 1..Len(list)}

\* C22: for every engineer and every non-empty requiredSkills list,
\* findMatchingEngineers reports as matchingSkills the required skills that
\* equal, letter case ignored, some skill of the engineer, and as
\* missingSkills the others, both in the order of requiredSkills; the two
\* lists have no entry in common and together hold every entry of
\* requiredSkills; matchScore = |matchingSkills| / |requiredSkills| * 100,
\* between 0 and 100. Every entry of the returned list is reported so.
C22_SkillsSplitAndScored ==
  \A requiredSkills \in C22_SkillLists :
    /\ \A e \in Engineers :
         LET match == MatchOf(e, requiredSkills)
         IN /\ match.matchingSkills
                 = SelectSeq(requiredSkills, LAMBDA skill : C22_Known(e, skill))
            /\ match.missingSkills
                 = SelectSeq(requiredSkills, LAMBDA skill : ~C22_Known(e, skill))
            /\ C22_Elements(match.matchingSkills) \cap C22_Elements(match.missingSkills) = {}
            /\ Len(match.matchingSkills) + Len(match.missingSkills) = Len(requiredSkills)
            /\ match.matchScore.den > 0
            /\ match.matchScore.num * Len(requiredSkills)
                 = Len(match.matchingSkills) * 100 * match.matchScore.den
            /\ match.matchScore.num >= 0
            /\ match.matchScore.num <= 100 * match.matchScore.den
    /\ \A minCapacity \in MinCapacities : \A engineers \in FindEngineers :
         LET matches == findMatchingEngineers(requiredSkills, minCapacity, engineers)
         IN \A i \in 1..Len(matches) :
              matches[i] = MatchOf(matches[i].engineer, requiredSkills)

\* node and react were asked for in a casing neither engineer stores: e1 came
\* back first with both matched, e2 with react matched and node missing
C22_MatchedAcrossCasing ==
  /\ response.op = "findMatchingEngineers"
  /\ Len(response.matches) = 2
  /\ response.matches[1].engineer = "e1"
  /\ response.matches[1].matchingSkills = <<Skill("node", "Title"), Skill("react", "lower")>>
  /\ response.matches[1].missingSkills = <<>>
  /\ response.matches[1].matchScore = Ratio(200, 2)
  /\ response.matches[2].engineer = "e2"
  /\ response.matches[2].matchingSkills = <<Skill("react", "lower")>>
  /\ response.matches[2].missingSkills = <<Skill("node", "Title")>>
  /\ response.matches[2].matchScore = Ratio(100, 2)

\* --------------------------------------------------------------------- C23
\* the percentage is below 1 or above 100
C23_OutOfRange(p) == p < 1 \/ p > 100

\* C23: after any sequence of createAssignment and updateAssignment requests
\* every stored allocation has startDate < endDate and allocationPercentage
\* in 1..100; a create whose endDate is not after its startDate or whose
\* percentage is outside 1..100 is rejected and stores nothing, and so is an
\* update of a stored allocation whose resulting endDate (the given one, else
\* the stored one) is not after its resulting startDate, or whose given
\* percentage is outside 1..100.
C23_DatesAndPercentageValid ==
  /\ \A id \in DOMAIN assignments :
       /\ assignments[id].startDate < assignments[id].endDate
       /\ assignments[id].allocationPercentage >= 1
       /\ assignments[id].allocationPercentage <= 100
  /\ \A req \in DateCreateRequests \cup AnyCreateRequests :
       (req.endDate <= req.startDate \/ C23_OutOfRange(req.allocationPercentage))
         => /\ CreateResponse(req).status # 201
            /\ CreateStore(req) = assignments
  /\ \A id \in DOMAIN assignments : \A updates \in DateUpdates \cup UpdateRequests :
       LET resultingStart == IF updates.startDate = NoDate THEN assignments[id].startDate
                             ELSE updates.startDate
           resultingEnd == IF updates.endDate = NoDate THEN assignments[id].endDate
                           ELSE updates.endDate
       IN (\/ resultingEnd <= resultingStart
           \/ (updates.allocationPercentage # NoPct
               /\ C23_OutOfRange(updates.allocationPercentage)))
            => /\ UpdateResponse(id, updates).status # 200
               /\ UpdateStore(id, updates) = assignments

\* an update that gave only a start date, equal to the stored end date, was
\* rejected, and the allocation still has its dates
C23_StartOnlyUpdateRejected ==
  /\ response = Plain("updateAssignment", 400, "EndNotAfterStart")
  /\ \E id \in DOMAIN assignments :
       /\ assignments[id].startDate = 0
       /\ assignments[id].endDate = 1
       /\ UpdateResponse(id, [engineerId |-> NoId, projectId |-> NoId,
                              allocationPercentage |-> NoPct,
                              startDate |-> 1, endDate |-> NoDate])
            = Plain("updateAssignment", 400, "EndNotAfterStart")

\* --------------------------------------------------------------------- C24
\* C24: in every state reached by createAssignment requests executed one
\* after the other, an updateAssignment request that gives a stored
\* allocation its own startDate, endDate and allocationPercentage is
\* accepted, and leaves the allocation and every getAvailableCapacity result
\* as they were.
C24_ResubmissionAccepted ==
  \A id \in DOMAIN assignments :
    /\ UpdateResponse(id, Resubmission(id)).status = 200
    /\ UpdateStore(id, Resubmission(id))[id] = assignments[id]
    /\ \A e \in Engineers : \A from \in Ticks \cup {NoDate} : \A to \in Ticks \cup {NoDate} :
         AvailableCapacityIn(UpdateStore(id, Resubmission(id)), e, from, to, NoAssignment)
           = getAvailableCapacity(e, from, to, NoAssignment)

\* --------------------------------------------------------------------- C25
\* C25: every window w that getAvailabilityWindows returns for engineer e
\* agrees with getAvailableCapacity: no stored allocation of e covers an
\* instant strictly between w.startDate and w.endDate, and for every range
\* strictly inside w the capacity check of createAssignment lets any
\* allocationPercentage <= w.availableCapacity through.
C25_WindowsAgreeWithCapacity ==
  \A e \in Engineers :
    \A futureAssignments \in SortedByStartDate(FutureAssignmentIds(e)) :
      LET windows == getAvailabilityWindows(e, futureAssignments)
      IN \A i \in 1..Len(windows) :
           LET w == windows[i]
               inside == {t \in 0..Sentinel : w.startDate < t /\ t < w.endDate}
           IN /\ \A id \in DOMAIN assignments :
                   assignments[id].engineerId = e
                     => ~\E t \in inside :
                           assignments[id].startDate <= t /\ t <= assignments[id].endDate
              /\ \A from \in inside : \A to \in inside :
                   from < to
                     => \A percentage \in 1..w.availableCapacity :
                          CapacitySufficient(
                            getAvailableCapacity(e, from, to, NoAssignment), percentage)

\* --------------------------------------------------------------------- C26
\* C26: an accepted updateAssignment leaves the engineerId and the projectId
\* of the allocation as they were, and when it checked capacity the check
\* holds for the engineer the allocation references after the update.
C26_UpdateKeepsReferences ==
  \A id \in DOMAIN assignments : \A updates \in AllUpdates :
    UpdateResponse(id, updates).status = 200
      => /\ UpdateStore(id, updates)[id].engineerId = assignments[id].engineerId
         /\ UpdateStore(id, updates)[id].projectId = assignments[id].projectId
         /\ CapacityChecked(updates)
              => CapacitySufficient(
                   getAvailableCapacity(UpdateStore(id, updates)[id].engineerId,
                                        NewStartDate(id, updates), NewEndDate(id, updates), id),
                   NewPercentage(id, updates))

\* --------------------------------------------------------------------- C27
\* C27: however a deleteProject request and createAssignment requests for
\* the same project interleave at their awaits, every stored allocation
\* references a stored project.
C27_NoOrphanAllocation ==
  \A id \in DOMAIN assignments : assignments[id].projectId \in DOMAIN projects

\* --------------------------------------------------------------------- C28
\* C28: however an updateProject request that changes the project's dates
\* and a createAssignment request for the same project interleave at their
\* awaits, once both are answered every stored allocation lies within the
\* stored startDate and endDate of its project.
C28_WithinProjectAfterBoth ==
  (\A c \in Clients : inflight[c].pc = "done")
    => \A id \in DOMAIN assignments :
         WithinProject(assignments[id].startDate, assignments[id].endDate,
                       projects[assignments[id].projectId])

\* --------------------------------------------------------------------- C29
\* C29: every window getAvailabilityWindows returns starts strictly before
\* it ends, whatever allocations are stored and whatever today is,
\* allocations ending on or after the sentinel and a today on or after the
\* sentinel included.
C29_WindowsStartBeforeEnd ==
  \A e \in Engineers :
    \A futureAssignments \in SortedByStartDate(FutureAssignmentIds(e)) :
      LET windows == getAvailabilityWindows(e, futureAssignments)
      IN \A i \in 1..Len(windows) : windows[i].startDate < windows[i].endDate

\* --------------------------------------------------------------------- C30
\* C30: deleteAssignment of a stored allocation is answered with success
\* whatever the capacity, project and status are, removes that allocation and
\* no other, and leaves users and projects alone; deleteAssignment of the
\* allocation an accepted createAssignment has just stored gives back the
\* Assignment collection of before the create, and with it every
\* getAvailableCapacity and getAvailabilityWindows result; deleteAssignment of
\* an id that is not stored answers not found and changes nothing.
C30_DeleteUndoesCreate ==
  /\ [](\A id \in AssignmentIds :
          IF id \in DOMAIN assignments
          THEN /\ DeleteResponse(id) = Plain("deleteAssignment", 200, "AssignmentDeleted")
               /\ DOMAIN DeleteStore(id) = DOMAIN assignments \ {id}
               /\ \A x \in DOMAIN DeleteStore(id) : DeleteStore(id)[x] = assignments[x]
          ELSE /\ DeleteResponse(id) = Plain("deleteAssignment", 404, "AssignmentNotFound")
               /\ DeleteStore(id) = assignments)
  /\ [][/\ response'.op = "deleteAssignment" => (users' = users /\ projects' = projects)
        /\ (response'.op = "createAssignment" /\ response'.status = 201)
             => \A id \in DOMAIN assignments' \ DOMAIN assignments :
                  /\ DeleteResponse(id)'.status = 200
                  /\ DeleteStore(id)' = assignments
                  /\ \A e \in Engineers :
                       \A from \in Ticks \cup {NoDate} : \A to \in Ticks \cup {NoDate} :
                         AvailableCapacityIn(DeleteStore(id)', e, from, to, NoAssignment)
                           = getAvailableCapacity(e, from, to, NoAssignment)]_vars

\* one of two stored allocations was deleted: the other is still stored with
\* its 60%, and only that is counted against its engineer
C30_DeletedOneOfTwo ==
  /\ response = Plain("deleteAssignment", 200, "AssignmentDeleted")
  /\ Cardinality(DOMAIN assignments) = 1
  /\ \E id \in DOMAIN assignments :
       /\ assignments[id].allocationPercentage = 60
       /\ getAvailableCapacity(assignments[id].engineerId, NoDate, NoDate, NoAssignment) = 40

====
